---- MODULE Spec2Model ----
(***************************************************************************)
(* Dashboard_to_gpx.py: the reading-to-trajectory pipeline.                *)
(*                                                                         *)
(*   extract_coords_from_text  OCR text -> (lat, lon) or None              *)
(*   correct_sign              hemisphere sign correction of one reading   *)
(*   haversine                 great-circle distance in metres             *)
(*   sanity_check              the left-to-right cleaning pass             *)
(*                                                                         *)
(* Number representation.  Python floats are modelled in fixed point:      *)
(*   - a coordinate is an integer count of hundredths of a degree          *)
(*     (43.5 degrees is 4350, 1 degree is DegUnit);                        *)
(*   - a timestamp is an integer count of seconds, so that                 *)
(*     (t - prev_t).total_seconds() is the integer difference;             *)
(*   - radians, sines, cosines and the haversine term a are integers in    *)
(*     units of 1/Unit (a in units of 1/Unit^2);                           *)
(*   - a distance is an integer count of metres.                           *)
(* All intermediate products stay below 2^31.                              *)
(***************************************************************************)
EXTENDS Integers, Sequences, FiniteSets

(***************************************************************************)
(* Bounds of the model.                                                    *)
(***************************************************************************)
MaxLen == 3

\* Timestamps (seconds after the start of the recording).
Times == {0, 1, 3600}
\* Latitudes and longitudes, in hundredths of a degree.
Lats == {-4350, 4450}
Lons == {-7920, 50}
Signs == {-1, 1}

Readings == Times \X Lats \X Lons

(***************************************************************************)
(* Fixed-point arithmetic standing for Python's float and math functions.  *)
(***************************************************************************)
Unit == 10000
DegUnit == 100
\* pi/2 and (pi/180)/DegUnit, in units of 1/Unit and 1/Unit^2.
HalfPi == 15708
RadPerCentiDeg == 17453

Abs(x) == IF x < 0 THEN -x ELSE x
Sgn(x) == IF x < 0 THEN -1 ELSE IF x > 0 THEN 1 ELSE 0
Min(x, y) == IF x <= y THEN x ELSE y

\* Division rounding toward zero (\div rounds toward minus infinity).
Quot(x, d) == Sgn(x) * (Abs(x) \div d)

\* floor(sqrt(n)) by bisection on [lo, hi].
RECURSIVE SqrtBetween(_, _, _)
SqrtBetween(n, lo, hi) ==
    IF lo >= hi THEN lo
    ELSE LET mid == (lo + hi + 1) \div 2
         IN  IF mid * mid <= n THEN SqrtBetween(n, mid, hi)
                               ELSE SqrtBetween(n, lo, mid - 1)

\* math.sqrt on an argument in units of 1/Unit^2, result in units of 1/Unit.
Sqrt(n) == SqrtBetween(n, 0, 2 * Unit)

\* math.radians: hundredths of a degree -> radians in units of 1/Unit.
Radians(x) == Quot(x * RadPerCentiDeg, Unit)

\* math.sin on [-pi/2, pi/2]: x - x^3/3! + x^5/5! - x^7/7! + x^9/9!.
Sin(x) ==
    LET ax == Abs(x)
        x2 == (ax * ax) \div Unit
        t3 == ((ax * x2) \div Unit) \div 6
        t5 == ((t3 * x2) \div Unit) \div 20
        t7 == ((t5 * x2) \div Unit) \div 42
        t9 == ((t7 * x2) \div Unit) \div 72
    IN  Sgn(x) * (ax - t3 + t5 - t7 + t9)

\* math.cos on [-pi/2, pi/2]: 1 - x^2/2! + x^4/4! - x^6/6! + x^8/8!.
Cos(x) ==
    LET ax == Abs(x)
        x2 == (ax * ax) \div Unit
        t2 == x2 \div 2
        t4 == ((t2 * x2) \div Unit) \div 12
        t6 == ((t4 * x2) \div Unit) \div 30
        t8 == ((t6 * x2) \div Unit) \div 56
    IN  Unit - t2 + t4 - t6 + t8

\* atan on [0, 1]: atan t = 2 atan(t / (1 + sqrt(1 + t^2))), then the series
\* r - r^3/3 + r^5/5 - r^7/7.
Atan(t) ==
    LET den == Unit + Sqrt(Unit * Unit + t * t)
        r   == (t * Unit) \div den
        r2  == (r * r) \div Unit
        r3  == (r * r2) \div Unit
        r5  == (r3 * r2) \div Unit
        r7  == (r5 * r2) \div Unit
    IN  2 * (r - (r3 \div 3) + (r5 \div 5) - (r7 \div 7))

\* math.atan2(y, x) for y, x >= 0, not both 0.
Atan2(y, x) ==
    IF y <= x THEN Atan((y * Unit) \div x)
              ELSE HalfPi - Atan((x * Unit) \div y)

(***************************************************************************)
(* haversine(lat1, lon1, lat2, lon2): metres.                              *)
(***************************************************************************)
R == 6371000

haversine(lat1, lon1, lat2, lon2) ==
    LET phi1    == Radians(lat1)
        phi2    == Radians(lat2)
        dphi    == Radians(lat2 - lat1)
        dlambda == Radians(lon2 - lon1)
        s1      == Abs(Sin(Quot(dphi, 2)))
        s2      == Abs(Sin(Quot(dlambda, 2)))
        cc      == (Cos(phi1) * Cos(phi2)) \div Unit
        a       == Min(s1 * s1 + ((cc * s2) \div Unit) * s2, Unit * Unit)
        c       == Atan2(Sqrt(a), Sqrt(Unit * Unit - a))
    IN  ((R \div 1000) * 2 * c) \div (Unit \div 1000)

(***************************************************************************)
(* correct_sign(lat, lon, expected_lat_sign, expected_lon_sign)            *)
(* returns <<lat, lon, flipped>>, flipped = <<lat flipped, lon flipped>>.  *)
(***************************************************************************)
\* Variant: the guard is abs(v) >= 1.
correct_sign_ge(lat, lon, els, elo) ==
    LET flip0 == Abs(lat) >= 1 * DegUnit /\ lat * els < 0
        flip1 == Abs(lon) >= 1 * DegUnit /\ lon * elo < 0
    IN  << IF flip0 THEN -lat ELSE lat,
           IF flip1 THEN -lon ELSE lon,
           <<flip0, flip1>> >>

\* Variant: the longitude branch tests the latitude again.
correct_sign_lat_twice(lat, lon, els, elo) ==
    LET flip0 == Abs(lat) > 1 * DegUnit /\ lat * els < 0
        flip1 == Abs(lat) > 1 * DegUnit /\ lat * elo < 0
    IN  << IF flip0 THEN -lat ELSE lat,
           IF flip1 THEN -lon ELSE lon,
           <<flip0, flip1>> >>

correct_sign(lat, lon, els, elo) ==
    LET flip0 == Abs(lat) > 1 * DegUnit /\ lat * els < 0
        flip1 == Abs(lon) > 1 * DegUnit /\ lon * elo < 0
    IN  << IF flip0 THEN -lat ELSE lat,
           IF flip1 THEN -lon ELSE lon,
           <<flip0, flip1>> >>

(***************************************************************************)
(* sanity_check                                                            *)
(***************************************************************************)
MaxSpeed == 300

\* speed = dist / dt * 3.6;  speed > 300   (dt > 0, dist in metres).
speed_exceeds(dist, dt) == dist * 36 > MaxSpeed * 10 * dt

\* Variant: the reading is compared with cleaned[0] instead of cleaned[-1].
rejects_against_first(cleaned_, idx, t, lat, lon) ==
    /\ idx > 0
    /\ cleaned_ # <<>>
    /\ LET prev == cleaned_[1]
           dt   == t - prev[1]
       IN  /\ dt > 0
           /\ speed_exceeds(haversine(prev[2], prev[3], lat, lon), dt)

\* Variant: the elapsed time is taken in absolute value.
rejects_abs_dt(cleaned_, idx, t, lat, lon) ==
    /\ idx > 0
    /\ cleaned_ # <<>>
    /\ LET prev == cleaned_[Len(cleaned_)]
           dt   == Abs(t - prev[1])
       IN  /\ dt > 0
           /\ speed_exceeds(haversine(prev[2], prev[3], lat, lon), dt)

\* Variant: with no accepted reading yet, the reading is compared with a
\* default anchor at the origin, one second earlier.
rejects_default_anchor(cleaned_, idx, t, lat, lon) ==
    LET prev == IF cleaned_ = <<>> THEN <<t - 1, 0, 0>> ELSE cleaned_[Len(cleaned_)]
        dt   == t - prev[1]
    IN  /\ dt > 0
        /\ speed_exceeds(haversine(prev[2], prev[3], lat, lon), dt)

\* The test of lines 67-75 that ends in `skipped += 1; continue`, for the
\* corrected reading <<t, lat, lon>> at index idx against cleaned[-1].
rejects(cleaned_, idx, t, lat, lon) ==
    /\ idx > 0
    /\ cleaned_ # <<>>
    /\ LET prev == cleaned_[Len(cleaned_)]
           dt   == t - prev[1]
       IN  /\ dt > 0
           /\ speed_exceeds(haversine(prev[2], prev[3], lat, lon), dt)

\* Variant: a rejected reading is dropped without `skipped += 1`.
loop_body_uncounted(st, idx, point, els, elo) ==
    LET t       == point[1]
        cs      == correct_sign(point[2], point[3], els, elo)
        flips1  == IF cs[3][1] \/ cs[3][2] THEN st.flips + 1 ELSE st.flips
    IN  IF rejects(st.cleaned, idx, t, cs[1], cs[2])
        THEN [cleaned |-> st.cleaned, flips |-> flips1, skipped |-> st.skipped]
        ELSE [cleaned |-> Append(st.cleaned, <<t, cs[1], cs[2]>>),
              flips |-> flips1, skipped |-> st.skipped]

\* Variant: the `continue` is missing, a rejected reading is appended too.
loop_body_no_continue(st, idx, point, els, elo) ==
    LET t       == point[1]
        cs      == correct_sign(point[2], point[3], els, elo)
        flips1  == IF cs[3][1] \/ cs[3][2] THEN st.flips + 1 ELSE st.flips
    IN  IF rejects(st.cleaned, idx, t, cs[1], cs[2])
        THEN [cleaned |-> Append(st.cleaned, <<t, cs[1], cs[2]>>),
              flips |-> flips1, skipped |-> st.skipped + 1]
        ELSE [cleaned |-> Append(st.cleaned, <<t, cs[1], cs[2]>>),
              flips |-> flips1, skipped |-> st.skipped]

\* Variant: the reading is appended as it came in, not as corrected.
loop_body_append_raw(st, idx, point, els, elo) ==
    LET t       == point[1]
        cs      == correct_sign(point[2], point[3], els, elo)
        flips1  == IF cs[3][1] \/ cs[3][2] THEN st.flips + 1 ELSE st.flips
    IN  IF rejects(st.cleaned, idx, t, cs[1], cs[2])
        THEN [cleaned |-> st.cleaned, flips |-> flips1, skipped |-> st.skipped + 1]
        ELSE [cleaned |-> Append(st.cleaned, point),
              flips |-> flips1, skipped |-> st.skipped]

\* Variant: `flips += 1` comes after the plausibility check.
loop_body_flips_after_check(st, idx, point, els, elo) ==
    LET t       == point[1]
        cs      == correct_sign(point[2], point[3], els, elo)
        flips1  == IF cs[3][1] \/ cs[3][2] THEN st.flips + 1 ELSE st.flips
    IN  IF rejects(st.cleaned, idx, t, cs[1], cs[2])
        THEN [cleaned |-> st.cleaned, flips |-> st.flips, skipped |-> st.skipped + 1]
        ELSE [cleaned |-> Append(st.cleaned, <<t, cs[1], cs[2]>>),
              flips |-> flips1, skipped |-> st.skipped]

\* One iteration of the for loop on the state st = [cleaned, flips, skipped].
loop_body(st, idx, point, els, elo) ==
    LET t       == point[1]
        cs      == correct_sign(point[2], point[3], els, elo)
        lat     == cs[1]
        lon     == cs[2]
        flipped == cs[3]
        flips1  == IF flipped[1] \/ flipped[2] THEN st.flips + 1 ELSE st.flips
    IN  IF rejects(st.cleaned, idx, t, lat, lon)
        THEN [cleaned |-> st.cleaned, flips |-> flips1, skipped |-> st.skipped + 1]
        ELSE [cleaned |-> Append(st.cleaned, <<t, lat, lon>>),
              flips |-> flips1, skipped |-> st.skipped]

RECURSIVE loop_from(_, _, _, _, _)
loop_from(st, idx, pts, els, elo) ==
    IF idx >= Len(pts) THEN st
    ELSE loop_from(loop_body(st, idx, pts[idx + 1], els, elo), idx + 1, pts, els, elo)

\* The whole call: (cleaned, flips, skipped).
sanity_check(pts, els, elo) ==
    loop_from([cleaned |-> <<>>, flips |-> 0, skipped |-> 0], 0, pts, els, elo)

\* Python's None, as a function result: the empty tuple.
None == <<>>
\* A group of the pattern that took no part in the match.
NoGroup == ""
\* pattern.search found no match.
NoMatch == [ok |-> FALSE]

(***************************************************************************)
(* extract_coords_from_text(text).  A text is a sequence of one-character   *)
(* strings.                                                                *)
(*                                                                         *)
(* pattern:                                                                *)
(*   (-?\d{1,3}\.\d+)[ ,°]*([NnSs])?[^0-9\-]*(-?\d{1,3}\.\d+)[ ,°]*([EeWw])? *)
(* pattern.search tries the start positions from the left and, at each,    *)
(* the greedy choices in order, backtracking on failure:                   *)
(*   - -?\d{1,3}\. matches only a digit run of length 1 to 3 that ends at   *)
(*     a dot, after a minus sign when there is one;                        *)
(*   - the first \d+ takes all the digits and gives them back one by one;  *)
(*   - [ ,°]*, ([NnSs])? and [^0-9\-]* together cross any stretch with no  *)
(*     digit and no minus sign, the second number can only start where the *)
(*     longest such stretch ends, and group 2 is the letter that follows   *)
(*     the longest run of separators, if any;                              *)
(*   - after the second number nothing can fail: all its digits, all the   *)
(*     separators and the letter, if any, are taken.                       *)
(***************************************************************************)
Digit == {"0", "1", "2", "3", "4", "5", "6", "7", "8", "9"}
Separator == {" ", ",", "°"}
LatLetter == {"N", "n", "S", "s"}
LonLetter == {"E", "e", "W", "w"}
NumberChar == Digit \cup {"-"}

\* The character at position p, "" past the end.
At(txt, p) == IF p >= 1 /\ p <= Len(txt) THEN txt[p] ELSE ""

\* The end (exclusive) of the longest run from p of characters that are in
\* Class (member = TRUE) or not in it (member = FALSE).
RECURSIVE RunEnd(_, _, _, _)
RunEnd(txt, p, Class, member) ==
    IF p > Len(txt) \/ ((txt[p] \in Class) # member) THEN p
    ELSE RunEnd(txt, p + 1, Class, member)

\* -?\d{1,3}\.\d+ at p: whether it matches, where the fraction digits start
\* and where the longest match ends (exclusive).
NumberAt(txt, p) ==
    LET d0 == IF At(txt, p) = "-" THEN p + 1 ELSE p
        d1 == RunEnd(txt, d0, Digit, TRUE)
        f0 == d1 + 1
        f1 == RunEnd(txt, f0, Digit, TRUE)
    IN  [ok |-> d1 - d0 >= 1 /\ d1 - d0 <= 3 /\ At(txt, d1) = "." /\ f1 > f0,
         f0 |-> f0, end |-> f1]

\* The rest of the pattern after a first number txt[p..e1).  The groups are
\* substrings; an optional group that took no part is NoGroup.
RestAt(txt, p, e1) ==
    LET s1 == RunEnd(txt, e1, Separator, TRUE)
        ns == IF At(txt, s1) \in LatLetter THEN At(txt, s1) ELSE NoGroup
        a  == IF ns = NoGroup THEN s1 ELSE s1 + 1
        b  == RunEnd(txt, a, NumberChar, FALSE)
        n2 == NumberAt(txt, b)
        s2 == RunEnd(txt, n2.end, Separator, TRUE)
        ew == IF At(txt, s2) \in LonLetter THEN At(txt, s2) ELSE NoGroup
    IN  IF n2.ok
        THEN [ok |-> TRUE, g1 |-> SubSeq(txt, p, e1 - 1), g2 |-> ns,
              g3 |-> SubSeq(txt, b, n2.end - 1), g4 |-> ew]
        ELSE NoMatch

\* The match at start position p with the first number ending at e1 or, on
\* failure, at the next shorter end.
RECURSIVE MatchEndingAt(_, _, _, _)
MatchEndingAt(txt, p, e1, f0) ==
    IF e1 <= f0 THEN NoMatch
    ELSE LET m == RestAt(txt, p, e1)
         IN  IF m.ok THEN m ELSE MatchEndingAt(txt, p, e1 - 1, f0)

MatchAt(txt, p) ==
    LET n1 == NumberAt(txt, p)
    IN  IF n1.ok THEN MatchEndingAt(txt, p, n1.end, n1.f0) ELSE NoMatch

\* pattern.search(text): the match at the leftmost start position that has one.
RECURSIVE SearchFrom(_, _)
SearchFrom(txt, p) ==
    IF p > Len(txt) THEN NoMatch
    ELSE LET m == MatchAt(txt, p)
         IN  IF m.ok THEN m ELSE SearchFrom(txt, p + 1)

pattern_search(txt) == SearchFrom(txt, 1)

DigitVal(c) ==
    CASE c = "0" -> 0 [] c = "1" -> 1 [] c = "2" -> 2 [] c = "3" -> 3 [] c = "4" -> 4
      [] c = "5" -> 5 [] c = "6" -> 6 [] c = "7" -> 7 [] c = "8" -> 8 [] c = "9" -> 9

\* The value of a digit string.
RECURSIVE Natural(_)
Natural(ds) ==
    IF ds = <<>> THEN 0
    ELSE 10 * Natural(SubSeq(ds, 1, Len(ds) - 1)) + DigitVal(ds[Len(ds)])

\* float(g) of a matched number, in hundredths of a degree: exact for the
\* one or two fraction digits of the model's texts.
Float(g) ==
    LET neg  == g[1] = "-"
        body == IF neg THEN SubSeq(g, 2, Len(g)) ELSE g
        dot  == RunEnd(body, 1, Digit, TRUE)
        frac == SubSeq(body, dot + 1, Len(body))
        mag  == Natural(SubSeq(body, 1, dot - 1)) * DegUnit
                  + (IF Len(frac) = 1 THEN 10 * Natural(frac)
                     ELSE Natural(SubSeq(frac, 1, 2)))
    IN  IF neg THEN -mag ELSE mag

\* str.upper on a hemisphere letter.
Upper(c) ==
    CASE c = "n" -> "N" [] c = "s" -> "S" [] c = "e" -> "E" [] c = "w" -> "W"
      [] OTHER -> c

\* Variant: the letters are compared without .upper().
extract_coords_from_text_no_upper(txt) ==
    LET match == pattern_search(txt)
    IN  IF ~match.ok THEN None
        ELSE LET lat == Float(match.g1)
                 lon == Float(match.g3)
                 ns  == match.g2
                 ew  == match.g4
             IN  << IF ns # NoGroup
                    THEN (IF ns = "S" THEN -Abs(lat) ELSE Abs(lat))
                    ELSE lat,
                    IF ew # NoGroup
                    THEN (IF ew = "W" THEN -Abs(lon) ELSE Abs(lon))
                    ELSE lon >>

extract_coords_from_text(txt) ==
    LET match == pattern_search(txt)
    IN  IF ~match.ok THEN None
        ELSE LET lat == Float(match.g1)
                 lon == Float(match.g3)
                 ns  == match.g2
                 ew  == match.g4
             IN  << IF ns # NoGroup
                    THEN (IF Upper(ns) = "S" THEN -Abs(lat) ELSE Abs(lat))
                    ELSE lat,
                    IF ew # NoGroup
                    THEN (IF Upper(ew) = "W" THEN -Abs(lon) ELSE Abs(lon))
                    ELSE lon >>

(***************************************************************************)
(* State.                                                                  *)
(***************************************************************************)
VARIABLES
    pc,                 \* position in the program
    points,             \* sanity_check: the input list
    expected_lat_sign,
    expected_lon_sign,
    i,                  \* sanity_check: index of the next reading
    cleaned,
    flips,
    skipped,
    again,              \* result of sanity_check on the returned cleaned list
    cs_args,            \* correct_sign: <<lat, lon>> passed in
    cs_ret,             \* correct_sign: the returned <<lat, lon, flipped>>
    text,               \* extract_coords_from_text: the OCR text
    coords              \* extract_coords_from_text: <<lat, lon>> or None

vars == <<pc, points, expected_lat_sign, expected_lon_sign, i, cleaned, flips,
          skipped, again, cs_args, cs_ret, text, coords>>

sanity_vars == <<points, i, cleaned, flips, skipped, again>>
sign_vars   == <<cs_args, cs_ret>>
parse_vars  == <<text, coords>>

RECURSIVE SeqsUpTo(_, _)
SeqsUpTo(S, n) ==
    IF n = 0 THEN {<<>>}
    ELSE LET shorter == SeqsUpTo(S, n - 1)
         IN  shorter \cup {Append(s, x) : s \in {q \in shorter : Len(q) = n - 1}, x \in S}

SanityIdle ==
    /\ points = <<>>
    /\ i = 0
    /\ cleaned = <<>>
    /\ flips = 0
    /\ skipped = 0
    /\ again = None

SignIdle == cs_args = None /\ cs_ret = None

ParseIdle == text = <<>> /\ coords = None

(***************************************************************************)
(* sanity_check(points, expected_lat_sign, expected_lon_sign) on every     *)
(* list of at most MaxLen readings, followed by a second call on its       *)
(* result.                                                                 *)
(***************************************************************************)
Init ==
    /\ pc = "loop"
    /\ points \in SeqsUpTo(Readings, MaxLen)
    /\ expected_lat_sign \in Signs
    /\ expected_lon_sign \in Signs
    /\ i = 0
    /\ cleaned = <<>>
    /\ flips = 0
    /\ skipped = 0
    /\ again = None
    /\ SignIdle
    /\ ParseIdle

\* for i, (t, lat, lon) in enumerate(points): one iteration.
Iterate ==
    /\ pc = "loop"
    /\ i < Len(points)
    /\ LET st == loop_body([cleaned |-> cleaned, flips |-> flips, skipped |-> skipped],
                           i, points[i + 1], expected_lat_sign, expected_lon_sign)
       IN  /\ cleaned' = st.cleaned
           /\ flips' = st.flips
           /\ skipped' = st.skipped
    /\ i' = i + 1
    /\ UNCHANGED <<pc, points, expected_lat_sign, expected_lon_sign, again>>
    /\ UNCHANGED <<sign_vars, parse_vars>>

\* return cleaned, flips, skipped
Return ==
    /\ pc = "loop"
    /\ i = Len(points)
    /\ pc' = "returned"
    /\ UNCHANGED <<expected_lat_sign, expected_lon_sign, points, i, cleaned, flips,
                   skipped, again, sign_vars, parse_vars>>

\* A second call, on the list the first call returned, with the same signs.
Resanitize ==
    /\ pc = "returned"
    /\ again' = sanity_check(cleaned, expected_lat_sign, expected_lon_sign)
    /\ pc' = "resanitized"
    /\ UNCHANGED <<expected_lat_sign, expected_lon_sign, points, i, cleaned, flips,
                   skipped, sign_vars, parse_vars>>

Next == Iterate \/ Return \/ Resanitize

Spec == Init /\ [][Next]_vars

(***************************************************************************)
(* correct_sign on its own, over values around the 1-degree guard.         *)
(***************************************************************************)
SignVals == {-4350, -101, -100, -99, -50, -1, 0, 1, 50, 99, 100, 101, 7920}

InitSign ==
    /\ pc = "sign_call"
    /\ cs_args \in SignVals \X SignVals
    /\ expected_lat_sign \in Signs
    /\ expected_lon_sign \in Signs
    /\ cs_ret = None
    /\ SanityIdle
    /\ ParseIdle

CorrectSign ==
    /\ pc = "sign_call"
    /\ cs_ret' = correct_sign(cs_args[1], cs_args[2], expected_lat_sign, expected_lon_sign)
    /\ pc' = "sign_done"
    /\ UNCHANGED <<expected_lat_sign, expected_lon_sign, cs_args, sanity_vars, parse_vars>>

NextSign == CorrectSign

SpecSign == InitSign /\ [][NextSign]_vars

(***************************************************************************)
(* extract_coords_from_text on its own, over OCR texts put together from   *)
(* a lead, a first number, separators, a letter, filler, a second number   *)
(* and a tail; any of the parts may be missing or malformed.               *)
(***************************************************************************)
Leads   == {<<>>, <<"-">>, <<"1", "2">>}
Firsts  == {<<>>, <<"4", "3">>, <<"4", "3", ".", "5">>, <<"-", "4", "3", ".", "5">>,
            <<"0", ".", "5">>, <<"1", "4", "3", ".", "5">>}
Gaps    == {<<>>, <<" ">>, <<"°", " ">>}
Letters == {<<>>, <<"N">>, <<"S">>, <<"s">>, <<"W">>}
Fillers == {<<>>, <<" ">>, <<",">>, <<".">>}
Seconds == {<<>>, <<"7", "9", ".", "2">>, <<"-", "7", "9", ".", "2">>, <<".", "2">>}
Tails   == {<<>>, <<"E">>, <<"W">>, <<"w">>, <<" ", "W">>, <<"N">>}

Texts ==
    {a \o b \o c \o d \o e \o f \o g :
        a \in Leads, b \in Firsts, c \in Gaps, d \in Letters, e \in Fillers,
        f \in Seconds, g \in Tails}

InitParse ==
    /\ pc = "parse_call"
    /\ text \in Texts
    /\ coords = None
    /\ expected_lat_sign = 1
    /\ expected_lon_sign = 1
    /\ SanityIdle
    /\ SignIdle

Parse ==
    /\ pc = "parse_call"
    /\ coords' = extract_coords_from_text(text)
    /\ pc' = "parsed"
    /\ UNCHANGED <<expected_lat_sign, expected_lon_sign, text, sanity_vars, sign_vars>>

NextParse == Parse

SpecParse == InitParse /\ [][NextParse]_vars

(***************************************************************************)
(* Properties of sanity_check and correct_sign.                            *)
(*                                                                         *)
(* The properties speak of the corrected form of a reading and of an       *)
(* outlier in the words of the specification, not through correct_sign     *)
(* and rejects.                                                            *)
(***************************************************************************)
\* v needs its sign corrected: it is more than one degree from 0 and its sign
\* is not the expected one.
NeedsFlip(v, e) == Abs(v) > DegUnit /\ Sgn(v) # e

Fixed(v, e) == IF NeedsFlip(v, e) THEN -v ELSE v

\* The reading p with both axes corrected.
FixedReading(p) ==
    <<p[1], Fixed(p[2], expected_lat_sign), Fixed(p[3], expected_lon_sign)>>

\* The reading the loop is about to process, corrected.
Current == FixedReading(points[i + 1])

Last(s) == s[Len(s)]

InLoop == pc = "loop" /\ i < Len(points)

\* Seconds from reading p to reading q, and the metres between them.
Elapsed(p, q) == q[1] - p[1]
Metres(p, q) == haversine(p[2], p[3], q[2], q[3])

\* q follows p after a positive time at more than 300 km/h:
\* metres / seconds * 3.6 > 300.
Outlier(p, q) ==
    /\ Elapsed(p, q) > 0
    /\ Metres(p, q) * 36 > MaxSpeed * 10 * Elapsed(p, q)

\* The corrected readings of pts at the indices in K, in input order.
Selected(pts, K) ==
    LET f[k \in 0..Len(pts)] ==
            IF k = 0 THEN <<>>
            ELSE IF k \in K THEN Append(f[k - 1], FixedReading(pts[k]))
            ELSE f[k - 1]
    IN  f[Len(pts)]

\* C1: after each processed prefix of k readings len(cleaned) + skipped = k,
\* cleaned being the corrected readings at len(cleaned) distinct indices of
\* the prefix in input order; at the return len(cleaned) + skipped = n.
C1_Conservation ==
    /\ pc = "loop" =>
          /\ Len(cleaned) + skipped = i
          /\ \E K \in SUBSET (1..i) :
                /\ Cardinality(K) = Len(cleaned)
                /\ cleaned = Selected(SubSeq(points, 1, i), K)
    /\ pc \in {"returned", "resanitized"} =>
          Len(cleaned) + skipped = Len(points)

C1_Witness ==
    /\ pc = "returned"
    /\ Len(points) = 3
    /\ skipped = 1
    /\ Len(cleaned) = 2

\* C2 as amended: consecutive cleaned points whose elapsed time is positive
\* imply a speed of at most 300 km/h.
C2_SpeedBoundPositiveDt ==
    \A k \in 1..(Len(cleaned) - 1) :
        Elapsed(cleaned[k], cleaned[k + 1]) > 0 =>
            Metres(cleaned[k], cleaned[k + 1]) * 36
                <= MaxSpeed * 10 * Elapsed(cleaned[k], cleaned[k + 1])

\* metres / seconds * 3.6 <= 300.  With seconds = 0 the quotient exists only
\* as 0 distance in 0 time; with seconds < 0 it is negative.
SpeedAtMostMax(p, q) ==
    LET dt == Elapsed(p, q)
        d  == Metres(p, q)
    IN  \/ dt > 0 /\ d * 36 <= MaxSpeed * 10 * dt
        \/ dt < 0 /\ d * 36 >= MaxSpeed * 10 * dt
        \/ dt = 0 /\ d = 0

\* C2 as stated: every pair of consecutive cleaned points implies a speed of
\* at most 300 km/h, duplicate and decreasing timestamps included.
C2_SpeedBoundEveryPair ==
    \A k \in 1..(Len(cleaned) - 1) : SpeedAtMostMax(cleaned[k], cleaned[k + 1])

C2_Witness ==
    /\ pc = "returned"
    /\ skipped > 0
    /\ \E k \in 1..(Len(cleaned) - 1) :
          /\ Elapsed(cleaned[k], cleaned[k + 1]) > 0
          /\ Metres(cleaned[k], cleaned[k + 1]) > 0

\* C3: every cleaned reading more than one degree from 0 on an axis has the
\* expected sign on that axis.
C3_ExpectedSigns ==
    \A k \in 1..Len(cleaned) :
        /\ Abs(cleaned[k][2]) > DegUnit => Sgn(cleaned[k][2]) = expected_lat_sign
        /\ Abs(cleaned[k][3]) > DegUnit => Sgn(cleaned[k][3]) = expected_lon_sign

\* A latitude negated, and a longitude within one degree of 0 kept with the
\* unexpected sign.
C3_Witness ==
    /\ pc = "returned"
    /\ Len(cleaned) > 0
    /\ cleaned[1][2] = -points[1][2]
    /\ \E k \in 1..Len(cleaned) :
          /\ Abs(cleaned[k][3]) <= DegUnit
          /\ Sgn(cleaned[k][3]) # expected_lon_sign

\* C4: a reading that is an outlier against the last accepted reading leaves
\* cleaned (and so the anchor) unchanged and counts one skip; any other
\* reading is appended; nothing but the current reading is ever appended.
C4_RejectKeepsAnchor ==
    [][ (InLoop /\ cleaned # <<>>) =>
            IF Outlier(Last(cleaned), Current)
            THEN cleaned' = cleaned /\ skipped' = skipped + 1
            ELSE cleaned' = Append(cleaned, Current) /\ skipped' = skipped ]_vars

\* Two outliers in a row are both rejected against the first reading, though
\* the second one is no outlier against the first one.
C4_Witness ==
    /\ pc = "returned"
    /\ Len(points) = 3
    /\ skipped = 2
    /\ cleaned = <<FixedReading(points[1])>>
    /\ ~Outlier(FixedReading(points[2]), FixedReading(points[3]))
    /\ Elapsed(points[2], points[3]) > 0

\* C5: a reading not later than the anchor is appended and becomes the
\* anchor, and skipped stays.
C5_NonPositiveDtAccepted ==
    [][ (InLoop /\ cleaned # <<>> /\ Elapsed(Last(cleaned), Current) <= 0) =>
            /\ cleaned' = Append(cleaned, Current)
            /\ Last(cleaned') = Current
            /\ skipped' = skipped ]_vars

\* An earlier reading and a simultaneous one, each far from its anchor, kept.
C5_Witness ==
    /\ pc = "returned"
    /\ Len(points) = 3
    /\ Len(cleaned) = 3
    /\ Elapsed(cleaned[1], cleaned[2]) < 0
    /\ Elapsed(cleaned[2], cleaned[3]) = 0
    /\ Metres(cleaned[1], cleaned[2]) > 1000000
    /\ Metres(cleaned[2], cleaned[3]) > 1000000

\* C6: correct_sign negates a value exactly when it is more than one degree
\* from 0 and its sign is not the expected one, each axis on its own; a
\* value within one degree of 0 comes back as it was, with no flip recorded.
C6_FlipIff ==
    pc = "sign_done" =>
        /\ cs_ret[3][1] = NeedsFlip(cs_args[1], expected_lat_sign)
        /\ cs_ret[3][2] = NeedsFlip(cs_args[2], expected_lon_sign)
        /\ cs_ret[1] = Fixed(cs_args[1], expected_lat_sign)
        /\ cs_ret[2] = Fixed(cs_args[2], expected_lon_sign)
        /\ Abs(cs_args[1]) <= DegUnit => cs_ret[1] = cs_args[1] /\ ~cs_ret[3][1]
        /\ Abs(cs_args[2]) <= DegUnit => cs_ret[2] = cs_args[2] /\ ~cs_ret[3][2]

\* Latitude exactly -1 degree with expected sign +1 is kept; longitude 79.2
\* with expected sign -1 is negated.
C6_Witness ==
    /\ pc = "sign_done"
    /\ cs_args = <<-100, 7920>>
    /\ expected_lat_sign = 1
    /\ expected_lon_sign = -1
    /\ cs_ret = <<-100, -7920, <<FALSE, TRUE>> >>

\* C7: sanity_check on the list it returned, with the same signs, returns
\* that list with 0 corrections and 0 skipped.
C7_Idempotent ==
    pc = "resanitized" =>
        again = [cleaned |-> cleaned, flips |-> 0, skipped |-> 0]

C7_Witness ==
    /\ pc = "resanitized"
    /\ flips > 0
    /\ skipped > 0
    /\ Len(cleaned) = 2

\* C9: the first reading is accepted as corrected; once cleaned is non-empty
\* it stays non-empty; from the second reading on there is an anchor; so a
\* non-empty input gives a non-empty cleaned and skipped <= n - 1.
C9_AnchorInv ==
    /\ (pc = "loop" /\ i > 0) => cleaned # <<>>
    /\ (pc = "returned" /\ Len(points) > 0) =>
          cleaned # <<>> /\ skipped <= Len(points) - 1

C9_AnchorStep ==
    /\ (InLoop /\ i = 0) => cleaned' = <<Current>> /\ skipped' = 0
    /\ cleaned # <<>> => cleaned' # <<>>

C9_AnchorMachine == []C9_AnchorInv /\ [][C9_AnchorStep]_vars

\* Every reading but the first skipped: the bound n - 1 is reached.
C9_Witness ==
    /\ pc = "returned"
    /\ Len(points) = MaxLen
    /\ skipped = Len(points) - 1
    /\ Len(cleaned) = 1

\* C10: flips is the number of processed readings with at least one axis
\* flipped, rejected readings included.
C10_FlipsCount ==
    pc \in {"loop", "returned"} =>
        /\ flips = Cardinality({k \in 1..i :
                        \/ NeedsFlip(points[k][2], expected_lat_sign)
                        \/ NeedsFlip(points[k][3], expected_lon_sign)})
        /\ flips <= i

\* The first reading kept as it came, the second flipped on both axes and
\* then rejected: flips = 1 with no corrected reading in cleaned.
C10_Witness ==
    /\ pc = "returned"
    /\ Len(points) = 2
    /\ flips = 1
    /\ skipped = 1
    /\ cleaned = <<points[1]>>
    /\ NeedsFlip(points[2][2], expected_lat_sign)
    /\ NeedsFlip(points[2][3], expected_lon_sign)

(***************************************************************************)
(* Properties of extract_coords_from_text.                                 *)
(***************************************************************************)
\* The value v under a hemisphere letter: negative under a letter of Neg,
\* positive under one of Pos, as it is under none.
UnderLetter(v, letter, Neg, Pos) ==
    IF letter \in Neg THEN -Abs(v) ELSE IF letter \in Pos THEN Abs(v) ELSE v

\* C8: the first matched number is the latitude and the second the
\* longitude; S and N, W and E (in either case) fix the sign whatever the
\* sign character, and with no letter the signed value is returned; None is
\* returned when nothing matches, as for the empty text.
C8_Hemisphere ==
    pc = "parsed" =>
        LET m == pattern_search(text)
        IN  /\ ~m.ok => coords = None
            /\ m.ok =>
                  /\ Len(coords) = 2
                  /\ coords[1] = UnderLetter(Float(m.g1), m.g2, {"S", "s"}, {"N", "n"})
                  /\ coords[2] = UnderLetter(Float(m.g3), m.g4, {"W", "w"}, {"E", "e"})
            /\ text = <<>> => coords = None
            /\ text = <<"4", "3", ".", "5", "S", " ", "7", "9", ".", "2", "E">>
                  => coords = <<-4350, 7920>>
            /\ text = <<"4", "3", ".", "5", "N", " ", "7", "9", ".", "2", "W">>
                  => coords = <<4350, -7920>>
            /\ text = <<"4", "3", ".", "5", " ", "7", "9", ".", "2">>
                  => coords = <<4350, 7920>>

\* "-43.5N 79.2w": the letters override the minus sign and the missing one.
C8_Witness ==
    /\ pc = "parsed"
    /\ text = <<"-", "4", "3", ".", "5", "N", " ", "7", "9", ".", "2", "w">>
    /\ coords = <<4350, -7920>>

====
